---- MODULE Spec2Model ----
(***************************************************************************)
(* Cascaded shadow mapping of three-geospatial: the two managers           *)
(*   CascadedShadowMaps (engine-native lights, dirty flag)                 *)
(*   CascadedShadows    (shader-uniform matrices, recomputed every call)   *)
(* as one state machine.  A behaviour constructs one of the two managers   *)
(* (variable sink) and then calls its setters and update().                *)
(*                                                                         *)
(* Numbers.  A JavaScript number is modelled by an exact rational <<n, d>> *)
(* in lowest terms with d > 0.  <<1, 0>> stands for Infinity.  The only    *)
(* inexact operations are roots: a root that is not rational is            *)
(* represented by its floor on the grid 1/FloatGrid.                       *)
(***************************************************************************)
EXTENDS Integers, Sequences, FiniteSets, TLC

\* ------------------------------------------------------------------------
\* Bounds of the model
\* ------------------------------------------------------------------------

\* Resolution of the grid on which irrational results are represented.
FloatGrid == 4

\* Cascade objects a CascadedShadows manager may allocate in one behaviour.
MaxAlloc == 8

\* ------------------------------------------------------------------------
\* Rational arithmetic
\* ------------------------------------------------------------------------

\* The element of a set of one element.  The({e : x \in {v}}) is e with x
\* standing for the value of v, which is computed once, before e.
The(S) == CHOOSE x \in S : TRUE

Abs(x) == IF x < 0 THEN -x ELSE x

RECURSIVE GCD(_, _)
GCD(a, b) == IF b = 0 THEN a ELSE GCD(b, a % b)

\* n/d in lowest terms, d # 0.
Rat(n, d) ==
  LET g == GCD(Abs(n), Abs(d))
      s == IF d < 0 THEN -1 ELSE 1
  IN  IF n = 0 THEN <<0, 1>> ELSE <<s * (n \div g), s * (d \div g)>>

I(n) == <<n, 1>>
Zero == <<0, 1>>
One == <<1, 1>>
Half == <<1, 2>>
Infinity == <<1, 0>>

RNeg(a) == <<-a[1], a[2]>>

RAdd(a, b) ==
  IF a[1] = 0 THEN b
  ELSE IF b[1] = 0 THEN a
  ELSE IF a[2] = 1 /\ b[2] = 1 THEN <<a[1] + b[1], 1>>
  ELSE IF a[2] = b[2] THEN Rat(a[1] + b[1], a[2])
  ELSE LET g == GCD(a[2], b[2])
       IN  Rat(a[1] * (b[2] \div g) + b[1] * (a[2] \div g), a[2] * (b[2] \div g))

RSub(a, b) == RAdd(a, RNeg(b))

RMul(a, b) ==
  IF a[1] = 0 \/ b[1] = 0 THEN Zero
  ELSE IF a[2] = 1 /\ b[2] = 1 THEN <<a[1] * b[1], 1>>
  ELSE LET g1 == GCD(Abs(a[1]), b[2])
           g2 == GCD(Abs(b[1]), a[2])
       IN  <<(a[1] \div g1) * (b[1] \div g2), (a[2] \div g2) * (b[2] \div g1)>>

\* a / b, b # 0.
RDiv(a, b) ==
  RMul(a, IF b[1] < 0 THEN <<-b[2], -b[1]>> ELSE <<b[2], b[1]>>)

RLess(a, b) == a[1] * b[2] < b[1] * a[2]
RMax(a, b) == IF RLess(a, b) THEN b ELSE a
RMin(a, b) == IF RLess(b, a) THEN b ELSE a

\* Math.round: the nearest integer, halves towards +Infinity.
RRound(a) == (2 * a[1] + a[2]) \div (2 * a[2])

\* The largest multiple of 1/FloatGrid that is <= a.
Fl(a) == Rat((a[1] * FloatGrid) \div a[2], FloatGrid)

RECURSIVE IntPow(_, _)
IntPow(b, e) == IF e = 0 THEN 1 ELSE b * IntPow(b, e - 1)

\* An upper end for the root search whose n-th power stays in range.
RootCap(n) ==
  CASE n = 1 -> 1000000000
    [] n = 2 -> 46340
    [] n = 3 -> 1290
    [] n = 4 -> 215
    [] n = 5 -> 73
    [] n = 6 -> 35
    [] n = 7 -> 21
    [] OTHER -> 14

\* One hexadecimal digit of the floor of the n-th root of x: the largest
\* lo + d * step (d < 16) that is <= hi and whose n-th power is <= x.
RootDigit(x, n, lo, step, hi) ==
  lo + step * Cardinality({d \in 1..15 : /\ lo + d * step <= hi
                                        /\ IntPow(lo + d * step, n) <= x})

\* floor of the n-th root of the natural number x, digit by digit from hi down.
RootSearch(x, n, hi) ==
  RootDigit(x, n,
    RootDigit(x, n,
      RootDigit(x, n, RootDigit(x, n, 0, 4096, hi), 256, hi), 16, hi), 1, hi)

IRoot(x, n) ==
  IF n = 1 THEN x
  ELSE RootSearch(x, n, IF x < RootCap(n) THEN x ELSE RootCap(n))

\* The n-th root of a >= 0: exact when a is the n-th power of a rational,
\* else its floor on the grid 1/FloatGrid.
RRoot(a, n) ==
  IF a[1] = 0 THEN Zero
  ELSE The({IF IntPow(p, n) = a[1] /\ IntPow(q, n) = a[2]
            THEN <<p, q>>
            ELSE Rat(IRoot((a[1] * IntPow(FloatGrid, n)) \div a[2], n), FloatGrid) :
              p \in {IRoot(a[1], n)}, q \in {IRoot(a[2], n)}})

RSqrt(a) == RRoot(a, 2)

RECURSIVE RPow(_, _)
RPow(a, e) == IF e = 0 THEN One ELSE RMul(a, RPow(a, e - 1))

\* ------------------------------------------------------------------------
\* three.js Vector3 / Matrix4 / Box3, as far as the managers use them
\* ------------------------------------------------------------------------

\* An array or a map as the program stores it: the elements themselves, each
\* computed once when the array is written.
Stored(f) == f @@ <<>>

Vec(x, y, z) == <<x, y, z>>
IVec(x, y, z) == <<I(x), I(y), I(z)>>
VZero == IVec(0, 0, 0)
\* Object3D.DEFAULT_UP
DefaultUp == IVec(0, 1, 0)

VAdd(a, b) == <<RAdd(a[1], b[1]), RAdd(a[2], b[2]), RAdd(a[3], b[3])>>
VSub(a, b) == <<RSub(a[1], b[1]), RSub(a[2], b[2]), RSub(a[3], b[3])>>
VScale(a, k) == <<RMul(a[1], k), RMul(a[2], k), RMul(a[3], k)>>
VDot(a, b) == RAdd(RAdd(RMul(a[1], b[1]), RMul(a[2], b[2])), RMul(a[3], b[3]))
VCross(a, b) ==
  <<RSub(RMul(a[2], b[3]), RMul(a[3], b[2])),
    RSub(RMul(a[3], b[1]), RMul(a[1], b[3])),
    RSub(RMul(a[1], b[2]), RMul(a[2], b[1]))>>
VLengthSq(a) == VDot(a, a)
VLength(a) == The({RSqrt(lengthSq) : lengthSq \in {VLengthSq(a)}})
RAbs(a) == <<Abs(a[1]), a[2]>>
\* Vector3.normalize: divideScalar(length() || 1).  The length is taken of
\* the vector divided by its largest component, which keeps the squares in
\* range and leaves the quotient as it is.
VMaxAbs(a) == RMax(RAbs(a[1]), RMax(RAbs(a[2]), RAbs(a[3])))
VUnit(a) == The({VScale(a, RDiv(One, length)) : length \in {VLength(a)}})
VNormalize(a) ==
  IF VMaxAbs(a)[1] = 0 THEN a
  ELSE The({VUnit(scaled) : scaled \in {VScale(a, RDiv(One, VMaxAbs(a)))}})
\* Vector3.distanceTo
VDistanceTo(a, b) == VLength(VSub(a, b))

\* A Matrix4 whose last row is (0, 0, 0, w): m holds the rows of the upper
\* left 3x3 block, t the translation column, w the element 15.  Every matrix
\* the managers build is of this form with w = 1; Matrix4.invert stores the
\* zero matrix (w = 0) for a singular one.
Mat(rows, t, w) == [m |-> rows, t |-> t, w |-> w]
Identity4 ==
  Mat(<<IVec(1, 0, 0), IVec(0, 1, 0), IVec(0, 0, 1)>>, VZero, 1)
ZeroMatrix4 == Mat(<<VZero, VZero, VZero>>, VZero, 0)

Col(M, j) == <<M.m[1][j], M.m[2][j], M.m[3][j]>>

\* Matrix4.multiplyMatrices(a, b) = a x b: a row of the product, and an
\* element of its translation column.
MulRow(r, B) == <<VDot(r, Col(B, 1)), VDot(r, Col(B, 2)), VDot(r, Col(B, 3))>>
MulT(r, t, B) == RAdd(VDot(r, B.t), RMul(t, I(B.w)))
MMul(A, B) ==
  Mat(<<MulRow(A.m[1], B), MulRow(A.m[2], B), MulRow(A.m[3], B)>>,
      <<MulT(A.m[1], A.t[1], B), MulT(A.m[2], A.t[2], B), MulT(A.m[3], A.t[3], B)>>,
      A.w * B.w)

Det3(r) ==
  RAdd(RSub(RMul(r[1][1], RSub(RMul(r[2][2], r[3][3]), RMul(r[2][3], r[3][2]))),
            RMul(r[1][2], RSub(RMul(r[2][1], r[3][3]), RMul(r[2][3], r[3][1])))),
       RMul(r[1][3], RSub(RMul(r[2][1], r[3][2]), RMul(r[2][2], r[3][1]))))

\* The cofactor of the element (i, j) of the 3x3 block r.
Cofactor(r, i, j) ==
  RSub(RMul(r[(i % 3) + 1][(j % 3) + 1], r[((i + 1) % 3) + 1][((j + 1) % 3) + 1]),
       RMul(r[(i % 3) + 1][((j + 1) % 3) + 1], r[((i + 1) % 3) + 1][(j % 3) + 1]))

\* The inverse of the 3x3 block r with determinant det # 0 (adjugate / det).
Inv3Row(r, det, i) ==
  <<RDiv(Cofactor(r, 1, i), det), RDiv(Cofactor(r, 2, i), det),
    RDiv(Cofactor(r, 3, i), det)>>
Inv3(r, det) == <<Inv3Row(r, det, 1), Inv3Row(r, det, 2), Inv3Row(r, det, 3)>>

\* Matrix4.invert: the inverse, or the zero matrix when the determinant is 0.
InverseAffine(inv, t) ==
  Mat(inv, <<RNeg(VDot(inv[1], t)), RNeg(VDot(inv[2], t)), RNeg(VDot(inv[3], t))>>, 1)
MInvert(A) ==
  IF A.w = 0 THEN ZeroMatrix4
  ELSE The({IF det[1] = 0 THEN ZeroMatrix4
            ELSE The({InverseAffine(inv, A.t) : inv \in {Inv3(A.m, det)}}) :
              det \in {Det3(A.m)}})

\* Vector3.applyMatrix4 (w = 1 for the affine matrices used here)
ApplyMatrix4(v, M) ==
  <<RAdd(VDot(M.m[1], v), M.t[1]), RAdd(VDot(M.m[2], v), M.t[2]),
    RAdd(VDot(M.m[3], v), M.t[3])>>

\* Matrix4.lookAt(eye, target, up): overwrites the rotation block of M with
\* the basis (x, y, z) of a frame at eye looking at target; translation and
\* w are kept.
LookAtRows(M, x, y, z) ==
  Mat(<<<<x[1], y[1], z[1]>>, <<x[2], y[2], z[2]>>, <<x[3], y[3], z[3]>>>>,
      M.t, M.w)
\* up and z parallel: z is nudged off up before the cross product.
LookAtNudge(up, z) ==
  IF VCross(up, z) # VZero THEN z
  ELSE IF Abs(up[3][1]) = up[3][2]
  THEN VNormalize(<<RAdd(z[1], <<1, 10000>>), z[2], z[3]>>)
  ELSE VNormalize(<<z[1], z[2], RAdd(z[3], <<1, 10000>>)>>)
LookAtAlong(M, up, z) ==
  The({LookAtRows(M, x, VCross(z, x), z) : x \in {VNormalize(VCross(up, z))}})
LookAt(M, eye, target, up) ==
  The({The({LookAtAlong(M, up, z) : z \in {LookAtNudge(up, direction)}}) :
         direction \in {VNormalize(IF eye = target THEN IVec(0, 0, 1)
                                   ELSE VSub(eye, target))}})

\* Matrix4.setPosition
SetPosition(M, p) == Mat(M.m, p, M.w)

\* Matrix4.makeOrthographic(left, right, top, bottom, near, far)
MakeOrthographic(left, right, top, bottom, near, far) ==
  LET w == RDiv(One, RSub(right, left))
      h == RDiv(One, RSub(top, bottom))
      p == RDiv(One, RSub(far, near))
      x == RMul(RAdd(right, left), w)
      y == RMul(RAdd(top, bottom), h)
      z == RMul(RAdd(far, near), p)
  IN  Mat(<<Vec(RMul(I(2), w), Zero, Zero),
            Vec(Zero, RMul(I(2), h), Zero),
            Vec(Zero, Zero, RMul(I(-2), p))>>,
          Vec(RNeg(x), RNeg(y), RNeg(z)), 1)

\* The least and the greatest of a finite set of numbers.
RMinOf(S) == CHOOSE a \in S : \A b \in S : ~RLess(b, a)
RMaxOf(S) == CHOOSE a \in S : \A b \in S : ~RLess(a, b)

\* Box3.makeEmpty + expandByPoint over the points ps: [min, max].
BoxOf(ps) ==
  [min |-> <<RMinOf({ps[k][1] : k \in 1..Len(ps)}),
             RMinOf({ps[k][2] : k \in 1..Len(ps)}),
             RMinOf({ps[k][3] : k \in 1..Len(ps)})>>,
   max |-> <<RMaxOf({ps[k][1] : k \in 1..Len(ps)}),
             RMaxOf({ps[k][2] : k \in 1..Len(ps)}),
             RMaxOf({ps[k][3] : k \in 1..Len(ps)})>>]
\* Box3.getCenter
BoxCenter(b) == VScale(VAdd(b.min, b.max), Half)

\* lerp(a, b, t) of @takram/three-geospatial
Lerp(a, b, t) == RAdd(a, RMul(t, RSub(b, a)))

\* ------------------------------------------------------------------------
\* helpers/splitFrustum and helpers/FrustumCorners (modelled from the
\* specification: their source is not part of the files at hand)
\* ------------------------------------------------------------------------

Modes == {"uniform", "logarithmic", "practical"}

\* split_i = near + (far - near) * i / count
UniformSplit(i, count, near, far) ==
  RAdd(near, RMul(RSub(far, near), Rat(i, count)))

\* split_i = near * (far / near) ^ (i / count)
LogarithmicSplit(i, count, near, far) ==
  The({IF RPow(root, count) = ratio
       THEN RMul(near, RPow(root, i))
       ELSE RMul(near, RRoot(RPow(ratio, i), count)) :
         ratio \in {RDiv(far, near)},
         root \in {RRoot(RDiv(far, near), count)}})

\* split_i = lambda * logarithmic_i + (1 - lambda) * uniform_i
PracticalSplit(i, count, near, far, lambda) ==
  RAdd(RMul(lambda, LogarithmicSplit(i, count, near, far)),
       RMul(RSub(One, lambda), UniformSplit(i, count, near, far)))

\* splitFrustum(mode, count, near, far, lambda, result): result is resized to
\* count entries, the last one far.
SplitFrustum(mode, count, near, far, lambda) ==
  Stored([i \in 1..count |->
     CASE mode = "uniform" -> UniformSplit(i, count, near, far)
       [] mode = "logarithmic" -> LogarithmicSplit(i, count, near, far)
       [] OTHER -> PracticalSplit(i, count, near, far, lambda)])

\* The sign pattern of the four corners of a face: corners 0 and 2 (here 1
\* and 3) are diagonal opposites.
CornerSign ==
  <<<<1, 1>>, <<1, -1>>, <<-1, -1>>, <<-1, 1>>>>

\* The corner k of the face of a perspective camera at view depth d, in the
\* camera's local space (the camera looks down -z).
FaceCorner(cam, d, k) ==
  Vec(RMul(I(CornerSign[k][1]), RMul(d, RMul(cam.tanHalfFov, cam.aspect))),
      RMul(I(CornerSign[k][2]), RMul(d, cam.tanHalfFov)),
      RNeg(d))

\* The face of a perspective camera at view depth d.
Face(cam, d) ==
  <<FaceCorner(cam, d, 1), FaceCorner(cam, d, 2), FaceCorner(cam, d, 3),
    FaceCorner(cam, d, 4)>>

\* FrustumCorners.setFromCamera(camera, far): far stands in for the camera's
\* own far plane.
SetFromCamera(cam, far) == [near |-> Face(cam, cam.near), far |-> Face(cam, far)]

\* The corner k of frustum f moved the fraction t of the way from its near to
\* its far face.
CornerAt(f, k, t) == VAdd(f.near[k], VScale(VSub(f.far[k], f.near[k]), t))

\* The face of frustum f at view depth d, by linear interpolation between its
\* near and far corners with parameter (d - near) / (far - near).
FaceAt(f, d) ==
  The({<<CornerAt(f, 1, t), CornerAt(f, 2, t), CornerAt(f, 3, t), CornerAt(f, 4, t)>> :
         t \in {RDiv(RSub(d, RNeg(f.near[1][3])),
                     RSub(RNeg(f.far[1][3]), RNeg(f.near[1][3])))}})

\* FrustumCorners.split(splits, target): target is resized to one sub-frustum
\* per split; sub-frustum i reaches from split i-1 (the near plane for the
\* first) to split i.
SubFrusta(f, faces) ==
  Stored([i \in 1..Len(faces) |->
            [near |-> IF i = 1 THEN f.near ELSE faces[i - 1], far |-> faces[i]]])
SplitCorners(f, splits) ==
  SubFrusta(f, Stored([i \in 1..Len(splits) |-> FaceAt(f, splits[i])]))

\* FrustumCorners.applyMatrix4
FaceApplyMatrix4(c, M) ==
  <<ApplyMatrix4(c[1], M), ApplyMatrix4(c[2], M), ApplyMatrix4(c[3], M),
    ApplyMatrix4(c[4], M)>>
FrustumApplyMatrix4(f, M) ==
  [near |-> FaceApplyMatrix4(f.near, M), far |-> FaceApplyMatrix4(f.far, M)]

EmptyFrustum ==
  [near |-> <<VZero, VZero, VZero, VZero>>,
   far |-> <<VZero, VZero, VZero, VZero>>]

\* ------------------------------------------------------------------------
\* Code shared by the two managers
\* ------------------------------------------------------------------------

\* getFrustumRadius without the inflation of fade.
GetFrustumRadiusSharp(frustum, fade, near, far) ==
  Fl(RMul(RMax(VDistanceTo(frustum.far[1], frustum.far[3]),
               VDistanceTo(frustum.far[1], frustum.near[3])),
          Half))

\* getFrustumRadius of both managers; far is Math.min(camera.far, this.far).
GetFrustumRadius(frustum, fade, near, far) ==
  The({Fl(RMul(IF fade
               THEN RAdd(diagonal,
                         RMul(RMul(<<1, 4>>, RMul(distance, distance)),
                              RSub(far, near)))
               ELSE diagonal,
               Half)) :
         diagonal \in {RMax(VDistanceTo(frustum.far[1], frustum.far[3]),
                            VDistanceTo(frustum.far[1], frustum.near[3]))},
         distance \in {RDiv(frustum.far[1][3], RSub(far, near))}})

\* The light-space target with x and y cut to the texel below instead of
\* rounded to the nearest.
LightSpaceCenterFloored(frustum, cameraToLightMatrix, margin, left, right, top, bottom, size) ==
  LET bbox == BoxOf(FrustumApplyMatrix4(frustum, cameraToLightMatrix).near
                    \o FrustumApplyMatrix4(frustum, cameraToLightMatrix).far)
      texelWidth == RDiv(RSub(right, left), size)
      texelHeight == RDiv(RSub(top, bottom), size)
      floor(x, texel) ==
        RMul(I(RRound(RSub(RDiv(x, texel), Half))), texel)
  IN  Vec(floor(BoxCenter(bbox)[1], texelWidth),
          floor(BoxCenter(bbox)[2], texelHeight),
          RAdd(bbox.max[3], margin))

\* The light-space target of a cascade: the centre of the bounding box of the
\* sub-frustum in light space, pushed to the box's max z plus margin, x and y
\* rounded to texel increments.
SnapToTexel(x, texel) == RMul(I(RRound(RDiv(x, texel))), texel)

LightSpaceCenter(frustum, cameraToLightMatrix, margin, left, right, top, bottom, size) ==
  The({Vec(SnapToTexel(BoxCenter(bbox)[1], RDiv(RSub(right, left), size)),
           SnapToTexel(BoxCenter(bbox)[2], RDiv(RSub(top, bottom), size)),
           RAdd(bbox.max[3], margin)) :
         bbox \in {BoxOf(The({f.near \o f.far :
                     f \in {FrustumApplyMatrix4(frustum, cameraToLightMatrix)}}))}})

\* ------------------------------------------------------------------------
\* Inputs
\* ------------------------------------------------------------------------

\* Operations after construction in one behaviour.
MaxOps == 3

\* A PerspectiveCamera: clip planes, tan(fov / 2), aspect and matrixWorld.
CameraA ==
  [near |-> I(1), far |-> I(81), tanHalfFov |-> One, aspect |-> One,
   matrixWorld |-> SetPosition(Identity4, IVec(0, 0, 8))]
\* Turned a quarter about the y axis, with a nearer far plane.
CameraB ==
  [near |-> I(1), far |-> I(16), tanHalfFov |-> One, aspect |-> One,
   matrixWorld |->
     Mat(<<IVec(0, 0, 1), IVec(0, 1, 0), IVec(-1, 0, 0)>>, IVec(8, 0, 0), 1)]
Cameras == {CameraA, CameraB}

\* Light / sun directions (unit vectors).
Directions == {IVec(0, 0, 1), IVec(1, 0, 0)}

CountValues == {0, 1, 2, 4}
SizeValues == {512, 2048}
FarValues == {I(16), I(5000)}
LambdaValues == {Half, One}
MarginValues == {I(0), I(200)}

\* ------------------------------------------------------------------------
\* State
\* ------------------------------------------------------------------------

VARIABLES
  sink,      \* which manager the behaviour constructed: "maps" | "shadows"
  camera,    \* the scene's camera (mainCamera / the camera passed to update)
  sun,       \* directionalLights.direction / the sunDirection passed to update
  maps,      \* the CascadedShadowMaps object with its lights
  shadows,   \* the CascadedShadows object with its Cascade objects
  last,      \* the operation that led to this state
  err,       \* what that operation threw: "none" | "invariant" | "TypeError"
  ops,       \* operations so far
  rollbacks, \* the functions setupMaterials returned that the caller holds
  calc       \* a single step of the pipeline applied to inputs of its own

vars == <<sink, camera, sun, maps, shadows, last, err, ops, rollbacks, calc>>

\* ------------------------------------------------------------------------
\* CascadedDirectionalLights (modelled from the specification)
\* ------------------------------------------------------------------------

\* A DirectionalLight as three.js constructs it.
DefaultLight ==
  [mapSize |-> 512,
   left |-> I(-5), right |-> I(5), top |-> I(5), bottom |-> I(-5),
   near |-> <<1, 2>>, far |-> I(500),
   position |-> IVec(0, 1, 0), target |-> VZero,
   intensity |-> 1, bias |-> 0, normalBias |-> 0, radius |-> 1,
   blurSamples |-> 8]

\* directionalLights.cascadedLights: the main light is the light of the first
\* cascade.
CascadedLights(m) == IF m.count = 0 THEN <<>> ELSE <<m.mainLight>> \o m.others

\* maps with its cascaded lights replaced by the non-empty sequence lights.
WithLights(m, lights) ==
  IF Len(lights) = 0 THEN m
  ELSE [m EXCEPT !.mainLight = Head(lights), !.others = Tail(lights)]

\* CascadedDirectionalLights.setCount: existing lights are kept, new ones
\* take the main light's shadow settings.
SetCount(m, value) ==
  LET lights == CascadedLights(m)
  IN  [m EXCEPT
        !.count = value,
        !.others = Stored([i \in 1..(IF value = 0 THEN 0 ELSE value - 1) |->
                      IF i + 1 <= Len(lights) THEN lights[i + 1] ELSE m.mainLight])]

\* ------------------------------------------------------------------------
\* CascadedShadowMaps
\* ------------------------------------------------------------------------

\* get cascadeCount / get mapSize
MapsCascadeCount(m) == Len(CascadedLights(m))
MapsMapSize(m) == m.mainLight.mapSize

\* The fields after the field initialisers, before the constructor body.
MapsFields ==
  [needsUpdateFrusta |-> TRUE,
   far |-> I(5000), mode |-> "practical", lambda |-> Half, margin |-> I(200),
   fade |-> TRUE, disableLastCascadeCutoff |-> FALSE,
   count |-> 0, mainLight |-> DefaultLight, others |-> <<>>,
   mainFrustum |-> EmptyFrustum, cascadedFrusta |-> <<>>,
   splits |-> <<>>, cascades |-> <<>>,
   materialStates |-> {}]

\* set cascadeCount without the write of needsUpdateFrusta.
MapsSetCascadeCountQuiet(m, value) ==
  IF value # MapsCascadeCount(m) THEN SetCount(m, value) ELSE m

\* set cascadeCount
MapsSetCascadeCount(m, value) ==
  IF value # MapsCascadeCount(m)
  THEN [SetCount(m, value) EXCEPT !.needsUpdateFrusta = TRUE]
  ELSE m

\* set mapSize
MapsSetMapSize(m, value) ==
  IF value # MapsMapSize(m)
  THEN WithLights(m, Stored([i \in 1..m.count |->
                               [CascadedLights(m)[i] EXCEPT !.mapSize = value]]))
  ELSE m

\* set far without the comparison with the current value.
MapsSetFarBlind(m, value) ==
  [m EXCEPT !.far = value, !.needsUpdateFrusta = TRUE]

\* set far
MapsSetFar(m, value) ==
  IF value # m.far
  THEN [m EXCEPT !.far = value, !.needsUpdateFrusta = TRUE]
  ELSE m

\* set mode
MapsSetMode(m, value) ==
  IF value # m.mode
  THEN [m EXCEPT !.mode = value, !.needsUpdateFrusta = TRUE]
  ELSE m

\* set lambda
MapsSetLambda(m, value) ==
  IF value # m.lambda
  THEN [m EXCEPT !.lambda = value, !.needsUpdateFrusta = TRUE]
  ELSE m

\* set margin without the write of needsUpdateFrusta.
MapsSetMarginQuiet(m, value) ==
  IF value # m.margin THEN [m EXCEPT !.margin = value] ELSE m

\* set margin
MapsSetMargin(m, value) ==
  IF value # m.margin
  THEN [m EXCEPT !.margin = value, !.needsUpdateFrusta = TRUE]
  ELSE m

\* set fade
MapsSetFade(m, value) ==
  IF value # m.fade
  THEN [m EXCEPT !.fade = value, !.needsUpdateFrusta = TRUE]
  ELSE m

\* set disableLastCascadeCutoff
MapsSetDisableLastCascadeCutoff(m, value) ==
  IF value # m.disableLastCascadeCutoff
  THEN [m EXCEPT !.disableLastCascadeCutoff = value, !.needsUpdateFrusta = TRUE]
  ELSE m

\* The constructor with the default options.
MapsNew == MapsSetMapSize(MapsSetCascadeCount(MapsFields, 4), 2048)

\* updateCascades with the first interval starting at the camera's near plane.
MapsUpdateCascadesFromNear(m, cam) ==
  LET cascadeCount == MapsCascadeCount(m)
      splits == SplitFrustum(m.mode, cascadeCount, cam.near,
                             RMin(cam.far, m.far), m.lambda)
      mainFrustum == SetFromCamera(cam, m.far)
      cascades ==
        Stored([i \in 1..cascadeCount |->
                  <<IF i = 1 THEN cam.near ELSE splits[i - 1], splits[i]>>])
  IN  [m |-> [m EXCEPT !.splits = splits,
                       !.mainFrustum = mainFrustum,
                       !.cascadedFrusta = SplitCorners(mainFrustum, splits),
                       !.cascades = cascades],
       err |-> "none"]

\* updateCascades with near and far handed to splitFrustum in each other's
\* place.
MapsUpdateCascadesSwapped(m, cam) ==
  [m |-> [m EXCEPT !.splits = SplitFrustum(m.mode, MapsCascadeCount(m),
                                           RMin(cam.far, m.far), cam.near,
                                           m.lambda)],
   err |-> "none"]

\* updateCascades: splits, main frustum, sub-frusta and the cascade
\* intervals.  With no cascade and disableLastCascadeCutoff set,
\* cascades[-1].y throws a TypeError before cascades is resized.
MapsCascadeIntervals(m, cascadeCount, splits) ==
  IF m.disableLastCascadeCutoff /\ cascadeCount = 0
  THEN m.cascades
  ELSE Stored([i \in 1..cascadeCount |->
                 <<IF i = 1 THEN Zero ELSE splits[i - 1],
                   IF i = cascadeCount /\ m.disableLastCascadeCutoff
                   THEN Infinity ELSE splits[i]>>])
MapsSplit(m, cascadeCount, splits, mainFrustum) ==
  [m EXCEPT !.splits = splits,
            !.mainFrustum = mainFrustum,
            !.cascadedFrusta = SplitCorners(mainFrustum, splits),
            !.cascades = MapsCascadeIntervals(m, cascadeCount, splits)]
MapsUpdateCascades(m, cam) ==
  [m |-> MapsSplit(m, MapsCascadeCount(m),
                   SplitFrustum(m.mode, MapsCascadeCount(m), cam.near,
                                RMin(cam.far, m.far), m.lambda),
                   SetFromCamera(cam, m.far)),
   err |-> IF m.disableLastCascadeCutoff /\ MapsCascadeCount(m) = 0
           THEN "TypeError" ELSE "none"]

\* The shadow camera of a cascaded light fitted to radius.
MapsShadowBounds(light, radius, margin) ==
  [light EXCEPT !.left = RNeg(radius), !.right = radius,
                !.top = radius, !.bottom = RNeg(radius),
                !.near = Zero,
                !.far = RAdd(RMul(radius, I(2)), margin)]

\* updateShadowBounds
MapsUpdateShadowBounds(m, cam) ==
  IF Len(m.cascadedFrusta) # MapsCascadeCount(m)
  THEN [m |-> m, err |-> "invariant"]
  ELSE [m |-> WithLights(m,
                Stored([i \in 1..Len(m.cascadedFrusta) |->
                   MapsShadowBounds(CascadedLights(m)[i],
                     GetFrustumRadius(m.cascadedFrusta[i], m.fade, cam.near,
                                      RMin(cam.far, m.far)),
                     m.margin)])),
        err |-> "none"]

\* updateFrusta (materialStates.update only refreshes material uniforms)
MapsBoundsAfter(c, cam) ==
  IF c.err # "none" THEN c ELSE MapsUpdateShadowBounds(c.m, cam)
MapsUpdateFrusta(m, cam) == MapsBoundsAfter(MapsUpdateCascades(m, cam), cam)

\* The light of cascade i placed for its sub-frustum: position and target.
MapsPlaceLight(light, frustum, lightDirection, orientation, toLight, margin, mapSize) ==
  The({[light EXCEPT !.position = center,
                     !.target = VAdd(center, lightDirection)] :
         center \in {ApplyMatrix4(
                       LightSpaceCenter(frustum, toLight, margin, light.left,
                                        light.right, light.top, light.bottom,
                                        I(mapSize)),
                       orientation)}})

\* The light placement loop of update(): one light per sub-frustum; reading
\* the shadow of a light that does not exist throws a TypeError after the
\* lights before it were placed.
MapsPlaced(m, lightDirection, lightOrientationMatrix, cameraToLightMatrix) ==
  Stored([i \in 1..MapsCascadeCount(m) |->
            IF i <= Len(m.cascadedFrusta)
            THEN MapsPlaceLight(CascadedLights(m)[i], m.cascadedFrusta[i],
                                lightDirection, lightOrientationMatrix,
                                cameraToLightMatrix, m.margin, MapsMapSize(m))
            ELSE CascadedLights(m)[i]])
MapsPlacedFacing(m, cam, lightDirection, lightOrientationMatrix) ==
  The({MapsPlaced(m, lightDirection, lightOrientationMatrix, cameraToLightMatrix) :
         cameraToLightMatrix \in
           {MMul(MInvert(lightOrientationMatrix), cam.matrixWorld)}})
MapsPlacedAlong(m, cam, lightDirection) ==
  The({MapsPlacedFacing(m, cam, lightDirection, lightOrientationMatrix) :
         lightOrientationMatrix \in
           {LookAt(Identity4, VZero, lightDirection, DefaultUp)}})
\* The light placement transforming the stored sub-frusta themselves into
\* light space instead of a copy in frustumScratch.
MapsPlaceLightsInPlace(m, cam, direction) ==
  [m |-> [WithLights(m, MapsPlacedAlong(m, cam, VNormalize(direction))) EXCEPT
            !.cascadedFrusta =
              Stored([i \in 1..Len(m.cascadedFrusta) |->
                 FrustumApplyMatrix4(
                   m.cascadedFrusta[i],
                   MMul(MInvert(LookAt(Identity4, VZero, VNormalize(direction),
                                       DefaultUp)),
                        cam.matrixWorld))])],
   err |-> IF Len(m.cascadedFrusta) > MapsCascadeCount(m)
           THEN "TypeError" ELSE "none"]

MapsPlaceLights(m, cam, direction) ==
  [m |-> WithLights(m, The({MapsPlacedAlong(m, cam, lightDirection) :
                              lightDirection \in {VNormalize(direction)}})),
   err |-> IF Len(m.cascadedFrusta) > MapsCascadeCount(m)
           THEN "TypeError" ELSE "none"]

\* What update() leaves behind: the object, what was thrown, and whether
\* updateFrusta ran.
MapsReturn(r, ran) == [m |-> r.m, err |-> r.err, ran |-> ran]
MapsPlaceAfter(f, cam, direction) ==
  IF f.err # "none" THEN f
  ELSE MapsReturn(MapsPlaceLights(f.m, cam, direction), f.ran)

\* update() placing the lights only after updateFrusta.
MapsUpdateLazy(m, cam, direction) ==
  IF m.needsUpdateFrusta
  THEN MapsPlaceAfter(
         MapsReturn(MapsUpdateFrusta([m EXCEPT !.needsUpdateFrusta = FALSE], cam),
                    TRUE),
         cam, direction)
  ELSE [m |-> m, err |-> "none", ran |-> FALSE]

\* update() without the test of needsUpdateFrusta.
MapsUpdateAlways(m, cam, direction) ==
  MapsPlaceAfter(
    MapsReturn(MapsUpdateFrusta([m EXCEPT !.needsUpdateFrusta = FALSE], cam),
               TRUE),
    cam, direction)

\* update(): updateFrusta when dirty, then the light placement.
MapsUpdate(m, cam, direction) ==
  MapsPlaceAfter(
    IF m.needsUpdateFrusta
    THEN MapsReturn(MapsUpdateFrusta([m EXCEPT !.needsUpdateFrusta = FALSE], cam),
                    TRUE)
    ELSE [m |-> m, err |-> "none", ran |-> FALSE],
    cam, direction)

\* ------------------------------------------------------------------------
\* CascadedShadows
\* ------------------------------------------------------------------------

\* extractOrthographicTuple without the final halving.
ExtractOrthographicTupleWhole(matrix) ==
  LET RmL == RDiv(I(2), matrix.m[1][1])
      RpL == RMul(RmL, RNeg(matrix.t[1]))
      TmB == RDiv(I(2), matrix.m[2][2])
      TpB == RMul(TmB, RNeg(matrix.t[2]))
  IN  <<RSub(RpL, RmL), RAdd(RmL, RpL), RAdd(TmB, TpB), RSub(TpB, TmB)>>

\* extractOrthographicTuple: <<left, right, top, bottom>> of an orthographic
\* projection matrix.
ExtractOrthographicTuple(matrix) ==
  LET m00 == matrix.m[1][1]
      m03 == matrix.t[1]
      m11 == matrix.m[2][2]
      m13 == matrix.t[2]
      RmL == RDiv(I(2), m00)
      RpL == RMul(RmL, RNeg(m03))
      TmB == RDiv(I(2), m11)
      TpB == RMul(TmB, RNeg(m13))
  IN  <<RDiv(RSub(RpL, RmL), I(2)),
        RDiv(RAdd(RmL, RpL), I(2)),
        RDiv(RAdd(TmB, TpB), I(2)),
        RDiv(RSub(TpB, TmB), I(2))>>

\* A Cascade as the cascadeCount setter allocates it.
NewCascade ==
  [interval |-> <<Zero, Zero>>,
   matrix |-> Identity4, inverseMatrix |-> Identity4,
   projectionMatrix |-> Identity4, inverseProjectionMatrix |-> Identity4,
   viewMatrix |-> Identity4, inverseViewMatrix |-> Identity4]

\* The fields before the constructor body.  cascades holds the identities of
\* the Cascade objects, heap their contents, nextId the next identity.
ShadowsFields ==
  [cascades |-> <<>>, heap |-> <<>>, nextId |-> 1,
   cascadeSize |-> 1024, far |-> I(10000), mode |-> "practical",
   lambda |-> Half, margin |-> I(0), fade |-> TRUE,
   frusta |-> <<>>, splits |-> <<>>]

\* get cascadeCount
ShadowsCascadeCount(s) == Len(s.cascades)

\* The Cascade object at index i (from 1).
CascadeAt(s, i) == s.heap[s.cascades[i]]

\* set cascadeCount filling the array with new Cascade objects.
ShadowsSetCascadeCountFresh(s, value) ==
  IF value # ShadowsCascadeCount(s)
  THEN LET cascades == Stored([i \in 1..value |-> s.nextId + (i - 1)])
       IN  [s EXCEPT
             !.cascades = cascades,
             !.nextId = s.nextId + value,
             !.heap = Stored([id \in {cascades[i] : i \in 1..value} |->
                                NewCascade])]
  ELSE s

\* set cascadeCount: entries that exist are kept, missing ones are
\* allocated, and the array is cut to value.
ShadowsSetCascadeCount(s, value) ==
  IF value # ShadowsCascadeCount(s)
  THEN LET old == Len(s.cascades)
           cascades ==
             Stored([i \in 1..value |->
                IF i <= old THEN s.cascades[i] ELSE s.nextId + (i - old - 1)])
           fresh == IF value > old THEN value - old ELSE 0
       IN  [s EXCEPT
             !.cascades = cascades,
             !.nextId = s.nextId + fresh,
             !.heap = Stored([id \in {cascades[i] : i \in 1..value} |->
                         IF id \in DOMAIN s.heap THEN s.heap[id] ELSE NewCascade])]
  ELSE s

\* The constructor with the default options.
ShadowsNew == ShadowsSetCascadeCount(ShadowsFields, 4)

\* s with field of the Cascade at index i set to value, for every i the
\* function values gives.
WithCascades(s, field, values) ==
  The({[s EXCEPT !.heap =
          Stored([id \in DOMAIN s.heap |->
             IF \E i \in DOMAIN vs : s.cascades[i] = id
             THEN [s.heap[id] EXCEPT
                    ![field] = vs[CHOOSE i \in DOMAIN vs : s.cascades[i] = id]]
             ELSE s.heap[id]])] :
         vs \in {Stored(values)}})

\* updateIntervals with near and far handed to splitFrustum in each other's
\* place.
ShadowsUpdateIntervalsSwapped(s, cam) ==
  [s EXCEPT !.splits = SplitFrustum(s.mode, ShadowsCascadeCount(s),
                                    RMin(s.far, cam.far), cam.near, s.lambda)]

\* updateIntervals
ShadowsSplit(s, cam, far, splits) ==
  WithCascades([s EXCEPT
                 !.splits = splits,
                 !.frusta = SplitCorners(SetFromCamera(cam, far), splits)],
               "interval",
               [i \in 1..ShadowsCascadeCount(s) |->
                  <<IF i = 1 THEN Zero ELSE splits[i - 1], splits[i]>>])
ShadowsUpdateIntervals(s, cam) ==
  ShadowsSplit(s, cam, RMin(s.far, cam.far),
               SplitFrustum(s.mode, ShadowsCascadeCount(s), cam.near,
                            RMin(s.far, cam.far), s.lambda))

\* The projection matrix with the near plane of a shadow camera of
\* CascadedShadowMaps.
ShadowsProjectionNearZero(radius, margin) ==
  MakeOrthographic(RNeg(radius), radius, radius, RNeg(radius),
                   Zero, RAdd(RMul(radius, I(2)), margin))

\* The projection matrix of a cascade fitted to radius.
ShadowsProjection(radius, margin) ==
  MakeOrthographic(RNeg(radius), radius, radius, RNeg(radius),
                   RNeg(margin), RAdd(RMul(radius, I(2)), margin))

\* updateProjectionMatrix
ShadowsUpdateProjectionMatrix(s, cam) ==
  IF Len(s.frusta) # Len(s.cascades)
  THEN [s |-> s, err |-> "invariant"]
  ELSE [s |-> WithCascades(s, "projectionMatrix",
                [i \in 1..Len(s.frusta) |->
                   ShadowsProjection(
                     GetFrustumRadius(s.frusta[i], s.fade, cam.near,
                                      RMin(s.far, cam.far)),
                     s.margin)]),
        err |-> "none"]

\* Ellipsoid.getSurfaceNormal (modelled from the specification): the unit
\* normal of the ellipsoid with the given radii below position.
GetSurfaceNormal(radii, position) ==
  VNormalize(<<RDiv(position[1], RMul(radii[1], radii[1])),
               RDiv(position[2], RMul(radii[2], radii[2])),
               RDiv(position[3], RMul(radii[3], radii[3]))>>)

\* The ellipsoid passed to update; the camera positions lie on its axes.
EllipsoidRadii == IVec(2, 2, 1)

\* The inverse view matrix of a cascade: a frame at the snapped centre of its
\* sub-frustum looking at the light position, moved to that position.
ShadowsSnappedCenter(frustum, orientation, toLight, margin, tuple, size) ==
  ApplyMatrix4(
    LightSpaceCenter(frustum, toLight, margin, tuple[1], tuple[2],
                     tuple[3], tuple[4], I(size)),
    orientation)
ShadowsLookFrom(old, center, position) ==
  SetPosition(LookAt(old, center, position, DefaultUp), position)
ShadowsInverseView(old, projection, frustum, sunDirection, distance, orientation, toLight, margin, size) ==
  The({The({ShadowsLookFrom(old, center, position) :
              position \in {VAdd(VScale(sunDirection, distance), center)}}) :
         center \in {ShadowsSnappedCenter(frustum, orientation, toLight, margin,
                       The({tuple : tuple \in
                              {ExtractOrthographicTuple(projection)}}),
                       size)}})

\* updateInverseViewMatrix
ShadowsLightDistance(cam, sunDirection) ==
  Lerp(I(1000000), I(1000),
       VDot(sunDirection, GetSurfaceNormal(EllipsoidRadii, cam.matrixWorld.t)))
ShadowsViews(s, sunDirection, distance, lightOrientationMatrix, cameraToLightMatrix) ==
  Stored([i \in 1..Len(s.frusta) |->
            ShadowsInverseView(
              CascadeAt(s, i).inverseViewMatrix,
              CascadeAt(s, i).projectionMatrix, s.frusta[i],
              sunDirection, distance, lightOrientationMatrix,
              cameraToLightMatrix, s.margin, s.cascadeSize)])
ShadowsViewsFacing(s, cam, sunDirection, lightOrientationMatrix) ==
  The({ShadowsViews(s, sunDirection, distance, lightOrientationMatrix,
                    cameraToLightMatrix) :
         distance \in {ShadowsLightDistance(cam, sunDirection)},
         cameraToLightMatrix \in
           {MMul(MInvert(lightOrientationMatrix), cam.matrixWorld)}})
ShadowsUpdateInverseViewMatrix(s, cam, sunDirection) ==
  IF Len(s.frusta) # Len(s.cascades)
  THEN [s |-> s, err |-> "invariant"]
  ELSE [s |-> WithCascades(s, "inverseViewMatrix",
                The({ShadowsViewsFacing(s, cam, sunDirection,
                                        lightOrientationMatrix) :
                       lightOrientationMatrix \in
                         {LookAt(Identity4, VZero, VScale(sunDirection, I(-1)),
                                 DefaultUp)}})),
        err |-> "none"]

\* The derived matrices with the operands of the two products swapped.
ShadowsDeriveSwapped(c) ==
  LET inverseProjectionMatrix == MInvert(c.projectionMatrix)
      viewMatrix == MInvert(c.inverseViewMatrix)
  IN  [c EXCEPT
        !.inverseProjectionMatrix = inverseProjectionMatrix,
        !.viewMatrix = viewMatrix,
        !.matrix = MMul(viewMatrix, c.projectionMatrix),
        !.inverseMatrix = MMul(inverseProjectionMatrix, c.inverseViewMatrix)]

\* The last loop of update(): the derived matrices of one cascade.
ShadowsDerive(c) ==
  The({[c EXCEPT
         !.inverseProjectionMatrix = inverseProjectionMatrix,
         !.viewMatrix = viewMatrix,
         !.matrix = MMul(c.projectionMatrix, viewMatrix),
         !.inverseMatrix = MMul(c.inverseViewMatrix, inverseProjectionMatrix)] :
         inverseProjectionMatrix \in {MInvert(c.projectionMatrix)},
         viewMatrix \in {MInvert(c.inverseViewMatrix)}})

\* update(camera, sunDirection, ellipsoid)
ShadowsDeriveAfter(v) ==
  IF v.err # "none" THEN v
  ELSE [s |-> [v.s EXCEPT !.heap =
                 Stored([id \in DOMAIN v.s.heap |-> ShadowsDerive(v.s.heap[id])])],
        err |-> "none"]
ShadowsViewAfter(p, cam, sunDirection) ==
  IF p.err # "none" THEN p
  ELSE ShadowsDeriveAfter(ShadowsUpdateInverseViewMatrix(p.s, cam, sunDirection))
ShadowsUpdate(s, cam, sunDirection) ==
  ShadowsViewAfter(
    ShadowsUpdateProjectionMatrix(ShadowsUpdateIntervals(s, cam), cam),
    cam, sunDirection)

\* ------------------------------------------------------------------------
\* Behaviours
\* ------------------------------------------------------------------------

Op(op, param, changed, ran) ==
  [op |-> op, param |-> param, changed |-> changed, ran |-> ran]

\* No step has been applied on its own.
NoCalc == [fn |-> "none"]

\* An input a single step is about to be applied to.
Input(c) == [fn |-> "input", case |-> c]

\* The state after construction with the default options.
Constructed ==
  /\ sink \in {"maps", "shadows"}
  /\ camera = CameraA
  /\ sun = IVec(0, 0, 1)
  /\ maps = IF sink = "maps" THEN MapsNew ELSE MapsFields
  /\ shadows = IF sink = "shadows" THEN ShadowsNew ELSE ShadowsFields
  /\ last = Op("new", "", FALSE, FALSE)
  /\ err = "none"
  /\ ops = 0
  /\ rollbacks = {}

Init == Constructed /\ calc = NoCalc

\* A setter call on the CascadedShadowMaps object.
MapsSet(param, changed, after) ==
  /\ sink = "maps"
  /\ ops < MaxOps
  /\ maps' = after
  /\ last' = Op("set", param, changed, FALSE)
  /\ err' = "none"
  /\ ops' = ops + 1
  /\ UNCHANGED <<sink, camera, sun, shadows, rollbacks, calc>>

MapsAssignCascadeCount ==
  \E v \in CountValues :
    MapsSet("cascadeCount", v # MapsCascadeCount(maps), MapsSetCascadeCount(maps, v))

MapsAssignMapSize ==
  \E v \in SizeValues :
    MapsSet("mapSize", v # MapsMapSize(maps), MapsSetMapSize(maps, v))

MapsAssignFar ==
  \E v \in FarValues : MapsSet("far", v # maps.far, MapsSetFar(maps, v))

MapsAssignMode ==
  \E v \in Modes : MapsSet("mode", v # maps.mode, MapsSetMode(maps, v))

MapsAssignLambda ==
  \E v \in LambdaValues :
    MapsSet("lambda", v # maps.lambda, MapsSetLambda(maps, v))

MapsAssignMargin ==
  \E v \in MarginValues :
    MapsSet("margin", v # maps.margin, MapsSetMargin(maps, v))

MapsAssignFade ==
  \E v \in BOOLEAN : MapsSet("fade", v # maps.fade, MapsSetFade(maps, v))

MapsAssignDisableLastCascadeCutoff ==
  \E v \in BOOLEAN :
    MapsSet("disableLastCascadeCutoff", v # maps.disableLastCascadeCutoff,
            MapsSetDisableLastCascadeCutoff(maps, v))

\* CascadedShadowMaps.update()
MapsCallUpdate ==
  LET returns(r) ==
        /\ maps' = r.m
        /\ err' = r.err
        /\ last' = Op("update", "", FALSE, r.ran)
  IN  /\ sink = "maps"
      /\ ops < MaxOps
      /\ returns(MapsUpdate(maps, camera, sun))
      /\ ops' = ops + 1
      /\ UNCHANGED <<sink, camera, sun, shadows, rollbacks, calc>>

\* An assignment to a field of the CascadedShadows object.
ShadowsSet(param, changed, after) ==
  /\ sink = "shadows"
  /\ ops < MaxOps
  /\ shadows' = after
  /\ last' = Op("set", param, changed, FALSE)
  /\ err' = "none"
  /\ ops' = ops + 1
  /\ UNCHANGED <<sink, camera, sun, maps, rollbacks, calc>>

ShadowsAssignCascadeCount ==
  \E v \in CountValues :
    /\ shadows.nextId - 1 + v <= MaxAlloc + ShadowsCascadeCount(shadows)
    /\ ShadowsSet("cascadeCount", v # ShadowsCascadeCount(shadows),
                  ShadowsSetCascadeCount(shadows, v))

ShadowsAssignCascadeSize ==
  \E v \in SizeValues :
    ShadowsSet("cascadeSize", v # shadows.cascadeSize,
               [shadows EXCEPT !.cascadeSize = v])

ShadowsAssignFar ==
  \E v \in FarValues :
    ShadowsSet("far", v # shadows.far, [shadows EXCEPT !.far = v])

ShadowsAssignMode ==
  \E v \in Modes :
    ShadowsSet("mode", v # shadows.mode, [shadows EXCEPT !.mode = v])

ShadowsAssignLambda ==
  \E v \in LambdaValues :
    ShadowsSet("lambda", v # shadows.lambda, [shadows EXCEPT !.lambda = v])

ShadowsAssignMargin ==
  \E v \in MarginValues :
    ShadowsSet("margin", v # shadows.margin, [shadows EXCEPT !.margin = v])

ShadowsAssignFade ==
  \E v \in BOOLEAN :
    ShadowsSet("fade", v # shadows.fade, [shadows EXCEPT !.fade = v])

\* CascadedShadows.update(camera, sunDirection)
ShadowsCallUpdate ==
  LET returns(r) ==
        /\ shadows' = r.s
        /\ err' = r.err
  IN  /\ sink = "shadows"
      /\ ops < MaxOps
      /\ returns(ShadowsUpdate(shadows, camera, sun))
      /\ last' = Op("update", "", FALSE, TRUE)
      /\ ops' = ops + 1
      /\ UNCHANGED <<sink, camera, sun, maps, rollbacks, calc>>

\* The scene changes between two calls: the camera moves, its clip planes
\* change, the sun moves.
MoveCamera ==
  /\ ops < MaxOps
  /\ \E c \in Cameras \ {camera} : camera' = c
  /\ last' = Op("scene", "camera", TRUE, FALSE)
  /\ err' = "none"
  /\ ops' = ops + 1
  /\ UNCHANGED <<sink, sun, maps, shadows, rollbacks, calc>>

MoveSun ==
  /\ ops < MaxOps
  /\ \E d \in Directions \ {sun} : sun' = d
  /\ last' = Op("scene", "sun", TRUE, FALSE)
  /\ err' = "none"
  /\ ops' = ops + 1
  /\ UNCHANGED <<sink, camera, maps, shadows, rollbacks, calc>>

Next ==
  \/ MapsAssignCascadeCount
  \/ MapsAssignMapSize
  \/ MapsAssignFar
  \/ MapsAssignMode
  \/ MapsAssignLambda
  \/ MapsAssignMargin
  \/ MapsAssignFade
  \/ MapsAssignDisableLastCascadeCutoff
  \/ MapsCallUpdate
  \/ ShadowsAssignCascadeCount
  \/ ShadowsAssignCascadeSize
  \/ ShadowsAssignFar
  \/ ShadowsAssignMode
  \/ ShadowsAssignLambda
  \/ ShadowsAssignMargin
  \/ ShadowsAssignFade
  \/ ShadowsCallUpdate
  \/ MoveCamera
  \/ MoveSun

Spec == Init /\ [][Next]_vars

\* ------------------------------------------------------------------------
\* Properties
\* ------------------------------------------------------------------------

\* The step is a call of CascadedShadowMaps.update().
IsMapsUpdate == sink = "maps" /\ last'.op = "update" /\ ops' = ops + 1

\* The step is an assignment to param of CascadedShadowMaps.
IsMapsSet(param) ==
  sink = "maps" /\ last'.op = "set" /\ last'.param = param /\ ops' = ops + 1

\* C1: every CascadedShadowMaps.update() runs updateFrusta if and only if
\* needsUpdateFrusta was true on entry, and needsUpdateFrusta is false when
\* it returns.
C1_UpdateRunsFrustaIffDirty ==
  [][IsMapsUpdate =>
       /\ last'.ran = maps.needsUpdateFrusta
       /\ ~maps'.needsUpdateFrusta]_vars

\* An update() of a clean manager has returned without running updateFrusta.
C1_Witness ==
  sink = "maps" /\ last.op = "update" /\ ~last.ran /\ ~maps.needsUpdateFrusta

\* The parameters whose setters C2 names.
C2Params ==
  {"cascadeCount", "far", "mode", "lambda", "margin", "fade",
   "disableLastCascadeCutoff"}

\* C2: assigning cascadeCount, far, mode, lambda, margin, fade or
\* disableLastCascadeCutoff its current value leaves needsUpdateFrusta (and
\* the whole manager) as it was, and an update() following such an
\* assignment to a clean manager does not run updateFrusta.
C2_SameValueKeepsFlag ==
  [][/\ (\E p \in C2Params : IsMapsSet(p)) /\ ~last'.changed =>
          /\ maps'.needsUpdateFrusta = maps.needsUpdateFrusta
          /\ maps' = maps
     /\ (IsMapsUpdate /\ last.op = "set" /\ ~last.changed
           /\ ~maps.needsUpdateFrusta) => ~last'.ran]_vars

\* A clean manager was assigned the current value of far and is still clean.
C2_Witness ==
  /\ sink = "maps" /\ last.op = "set" /\ last.param = "far" /\ ~last.changed
  /\ ~maps.needsUpdateFrusta

\* The parameters C3 names.
C3Params ==
  {"cascadeCount", "mapSize", "far", "mode", "lambda", "margin", "fade"}

\* C3 as stated: after an assignment of a different value to any of
\* cascadeCount, mapSize, far, mode, lambda, margin, fade the manager is dirty.
C3_Original ==
  (sink = "maps" /\ last.op = "set" /\ last.changed /\ last.param \in C3Params)
    => maps.needsUpdateFrusta

\* C3: an assignment of a different value to any of cascadeCount, far, mode,
\* lambda, margin, fade (or disableLastCascadeCutoff) sets needsUpdateFrusta;
\* an assignment to mapSize leaves needsUpdateFrusta as it was and stores the
\* size in every cascaded light.
C3_ChangedValueMarksDirty ==
  [][/\ (\E p \in C2Params : IsMapsSet(p)) /\ last'.changed
          => maps'.needsUpdateFrusta
     /\ IsMapsSet("mapSize") =>
          /\ maps'.needsUpdateFrusta = maps.needsUpdateFrusta
          /\ last'.changed =>
                \A i \in 1..MapsCascadeCount(maps') :
                  CascadedLights(maps')[i].mapSize # MapsMapSize(maps)]_vars

\* A clean manager was assigned a different mapSize and is still clean.
C3_Witness ==
  /\ sink = "maps" /\ last.op = "set" /\ last.param = "mapSize" /\ last.changed
  /\ ~maps.needsUpdateFrusta /\ MapsCascadeCount(maps) > 0

\* The step is an assignment to param of CascadedShadows.
IsShadowsSet(param) ==
  sink = "shadows" /\ last'.op = "set" /\ last'.param = param /\ ops' = ops + 1

Min(a, b) == IF a < b THEN a ELSE b

\* C4: an assignment to CascadedShadows.cascadeCount from count N to count M
\* keeps the same Cascade object, with its contents, at every index below
\* min(N, M), leaves M entries, and the entries it adds are objects that did
\* not exist before.
C4_ResizeKeepsIdentity ==
  [][IsShadowsSet("cascadeCount") =>
       LET N == Len(shadows.cascades)
           M == Len(shadows'.cascades)
       IN  /\ \A i \in 1..Min(N, M) :
                /\ shadows'.cascades[i] = shadows.cascades[i]
                /\ CascadeAt(shadows', i) = CascadeAt(shadows, i)
           /\ \A i \in (N + 1)..M : shadows'.cascades[i] \notin DOMAIN shadows.heap
           /\ \A v \in CountValues :
                shadows' = ShadowsSetCascadeCount(shadows, v) => M = v
           /\ last'.changed <=> M # N]_vars

\* The count went 4 -> 2 -> 4: the first two objects are those of the
\* constructor, the last two were allocated by the second resize.
C4_Witness ==
  /\ sink = "shadows" /\ last.op = "set" /\ last.param = "cascadeCount"
  /\ shadows.cascades = <<1, 2, 5, 6>>

\* An update has written the cascades of the current camera.
MapsWritten ==
  sink = "maps" /\ last.op = "update" /\ last.ran /\ err = "none"
ShadowsWritten ==
  sink = "shadows" /\ last.op = "update" /\ err = "none"

\* The cascade intervals, near to far, of the manager in use.
Intervals ==
  IF sink = "maps" THEN maps.cascades
  ELSE [i \in 1..ShadowsCascadeCount(shadows) |-> CascadeAt(shadows, i).interval]

\* The far plane the splits end at.
SplitFar ==
  RMin(camera.far, IF sink = "maps" THEN maps.far ELSE shadows.far)

\* The intervals are ordered and chain exactly.
Chained(iv) ==
  /\ \A i \in 1..Len(iv) : RLess(iv[i][1], iv[i][2])
  /\ \A i \in 1..(Len(iv) - 1) : iv[i][2] = iv[i + 1][1]

\* C5 as stated: the intervals chain from camera.near to
\* min(far, camera.far).
C5_Original ==
  (MapsWritten \/ ShadowsWritten) /\ Len(Intervals) >= 1 =>
    /\ Chained(Intervals)
    /\ Intervals[1][1] = camera.near
    /\ Intervals[Len(Intervals)][2] = SplitFar

\* C5: after update() (CascadedShadows) or updateFrusta() (CascadedShadowMaps)
\* with N >= 1 cascades the intervals are ordered and chain exactly; the
\* first one starts at 0, not at camera.near, and the last one ends at
\* min(far, camera.far), or at Infinity in CascadedShadowMaps with
\* disableLastCascadeCutoff set.
C5_IntervalsChainFromZero ==
  (MapsWritten \/ ShadowsWritten) /\ Len(Intervals) >= 1 =>
    /\ Chained(Intervals)
    /\ Intervals[1][1] = Zero
    /\ Intervals[Len(Intervals)][2] =
         IF sink = "maps" /\ maps.disableLastCascadeCutoff
         THEN Infinity ELSE SplitFar

\* updateFrusta has written four intervals for a camera whose near plane is
\* not at 0.
C5_Witness ==
  /\ MapsWritten /\ Len(Intervals) = 4 /\ camera.near # Zero
  /\ Intervals[1][1] = Zero /\ Intervals[1][2] # Intervals[4][2]

\* The radius fitted to sub-frustum i of the manager in use.
FittedRadius(i) ==
  IF sink = "maps"
  THEN GetFrustumRadius(maps.cascadedFrusta[i], maps.fade, camera.near, SplitFar)
  ELSE GetFrustumRadius(shadows.frusta[i], shadows.fade, camera.near, SplitFar)

\* The shadow camera of light has the bounds given.
HasBounds(light, left, right, top, bottom, near, far) ==
  /\ light.left = left /\ light.right = right
  /\ light.top = top /\ light.bottom = bottom
  /\ light.near = near /\ light.far = far

\* Every cascade has the bounds of its fitted radius and the margin: the
\* shadow cameras of CascadedShadowMaps with the near plane at mapsNear, the
\* projection matrices of CascadedShadows with the near plane at -margin.
ProjectionsAre(mapsNear) ==
  /\ MapsWritten =>
       \A i \in 1..MapsCascadeCount(maps) :
         LET r == FittedRadius(i)
         IN  HasBounds(CascadedLights(maps)[i], RNeg(r), r, r, RNeg(r),
                       mapsNear, RAdd(RMul(I(2), r), maps.margin))
  /\ ShadowsWritten =>
       \A i \in 1..ShadowsCascadeCount(shadows) :
         LET r == FittedRadius(i)
         IN  CascadeAt(shadows, i).projectionMatrix =
               MakeOrthographic(RNeg(r), r, r, RNeg(r), RNeg(shadows.margin),
                                RAdd(RMul(I(2), r), shadows.margin))

\* C6 as stated: in both managers the projection of a cascade is
\* left = -radius, right = radius, top = radius, bottom = -radius,
\* near = -margin, far = 2 * radius + margin.
C6_Original == ProjectionsAre(RNeg(maps.margin))

\* C6: the projection of a cascade is left = -radius, right = radius,
\* top = radius, bottom = -radius, far = 2 * radius + margin in both
\* managers; near is -margin in the projectionMatrix of CascadedShadows and
\* 0 in the shadow camera of a cascaded light of CascadedShadowMaps.
C6_OrthographicBounds == ProjectionsAre(Zero)

\* updateFrusta has fitted the shadow cameras with a margin other than 0.
C6_Witness ==
  /\ MapsWritten /\ MapsCascadeCount(maps) >= 2 /\ maps.margin # Zero
  /\ maps.mainLight.near = Zero /\ maps.mainLight.right = FittedRadius(1)

\* C7: after an update() of CascadedShadows, for every cascade viewMatrix is
\* the inverse of inverseViewMatrix, inverseProjectionMatrix the inverse of
\* projectionMatrix, matrix = projectionMatrix x viewMatrix, and
\* inverseMatrix = inverseViewMatrix x inverseProjectionMatrix is the
\* inverse of matrix.
C7_DerivedMatrices ==
  ShadowsWritten =>
    \A i \in 1..ShadowsCascadeCount(shadows) :
      LET c == CascadeAt(shadows, i)
      IN  /\ c.viewMatrix = MInvert(c.inverseViewMatrix)
          /\ MMul(c.viewMatrix, c.inverseViewMatrix) = Identity4
          /\ c.inverseProjectionMatrix = MInvert(c.projectionMatrix)
          /\ MMul(c.inverseProjectionMatrix, c.projectionMatrix) = Identity4
          /\ c.matrix = MMul(c.projectionMatrix, c.viewMatrix)
          /\ c.inverseMatrix =
               MMul(c.inverseViewMatrix, c.inverseProjectionMatrix)
          /\ MMul(c.matrix, c.inverseMatrix) = Identity4
          /\ MMul(c.inverseMatrix, c.matrix) = Identity4

\* An update() has written the matrices of four cascades, none of them the
\* identity.
C7_Witness ==
  /\ ShadowsWritten /\ ShadowsCascadeCount(shadows) = 4
  /\ \A i \in 1..4 :
       /\ CascadeAt(shadows, i).matrix # Identity4
       /\ CascadeAt(shadows, i).viewMatrix # Identity4
       /\ CascadeAt(shadows, i).matrix # CascadeAt(shadows, i).projectionMatrix

\* C8: the frustum list and the cascade list have equal length wherever an
\* update iterates them together: no update() stops at one of the two
\* invariant checks of CascadedShadows or at the one of updateShadowBounds,
\* after an update() the two lists of either manager are equally long, and
\* so they are in every clean CascadedShadowMaps, whose next update() goes
\* straight to the light placement loop.
C8_EqualLengths ==
  /\ err # "invariant"
  /\ (sink = "shadows" /\ last.op = "update") =>
       Len(shadows.frusta) = Len(shadows.cascades)
  /\ (sink = "maps" /\ (last.op = "update" \/ ~maps.needsUpdateFrusta)) =>
       Len(maps.cascadedFrusta) = Len(CascadedLights(maps))

\* An update() has run after the cascade count was changed to 2.
C8_Witness ==
  /\ sink = "maps" /\ last.op = "update" /\ err = "none"
  /\ Len(maps.cascadedFrusta) = 2 /\ Len(CascadedLights(maps)) = 2

\* The number of cascades of the manager in use.
CascadeCount ==
  IF sink = "maps" THEN MapsCascadeCount(maps) ELSE ShadowsCascadeCount(shadows)

\* C9 as stated: an update() of a manager whose cascadeCount is 0 stops with
\* an error.
C9_ZeroCountFailsFast ==
  (last.op = "update" /\ CascadeCount = 0) => err # "none"

\* C10: every update() places the lights again, whatever the dirty state:
\* after an update() of CascadedShadowMaps the position and target of every
\* cascaded light are those the placement gives for the current camera and
\* light direction, and after an update() of CascadedShadows the intervals
\* and the matrices of every cascade are those the recomputation gives for
\* the current camera and sun direction.
C10_PlacementEveryUpdate ==
  /\ (sink = "maps" /\ last.op = "update" /\ err = "none") =>
       MapsPlaceLights(maps, camera, sun).m = maps
  /\ ShadowsWritten =>
       LET p == ShadowsUpdateProjectionMatrix(
                  ShadowsUpdateIntervals(shadows, camera), camera)
           v == ShadowsUpdateInverseViewMatrix(p.s, camera, sun)
       IN  v.s = shadows

\* A clean CascadedShadowMaps was updated after the camera had moved.
C10_Witness ==
  /\ sink = "maps" /\ last.op = "update" /\ ~last.ran /\ err = "none"
  /\ camera = CameraB /\ MapsCascadeCount(maps) = 4

\* The frusta updateCascades / updateIntervals compute for cam.
MapsFrustaOf(m, cam) ==
  SplitCorners(SetFromCamera(cam, m.far),
               SplitFrustum(m.mode, MapsCascadeCount(m), cam.near,
                            RMin(cam.far, m.far), m.lambda))
ShadowsFrustaOf(s, cam) ==
  SplitCorners(SetFromCamera(cam, RMin(s.far, cam.far)),
               SplitFrustum(s.mode, ShadowsCascadeCount(s), cam.near,
                            RMin(s.far, cam.far), s.lambda))

\* C11 as stated: the frusta an update() has used are never stale: after an
\* update() the main frustum and the sub-frusta of the manager are those of
\* the current camera and the current splits.
C11_FrustaNeverStale ==
  /\ (sink = "maps" /\ last.op = "update" /\ err = "none") =>
       /\ maps.mainFrustum = SetFromCamera(camera, maps.far)
       /\ maps.cascadedFrusta = MapsFrustaOf(maps, camera)
  /\ ShadowsWritten => shadows.frusta = ShadowsFrustaOf(shadows, camera)

\* What an update() hands to the renderer: the shadow-camera bounds and the
\* placement of every cascaded light, the matrices of every Cascade.
MapsOutput(m) ==
  [i \in 1..MapsCascadeCount(m) |-> [CascadedLights(m)[i] EXCEPT !.mapSize = 0]]
ShadowsOutput(s) ==
  [i \in 1..ShadowsCascadeCount(s) |->
     [CascadeAt(s, i) EXCEPT !.interval = <<Zero, Zero>>]]

\* The split distances updateCascades / updateIntervals compute for cam.
MapsSplitsOf(m, cam) ==
  SplitFrustum(m.mode, MapsCascadeCount(m), cam.near, RMin(cam.far, m.far),
               m.lambda)
ShadowsSplitsOf(s, cam) ==
  SplitFrustum(s.mode, ShadowsCascadeCount(s), cam.near, RMin(s.far, cam.far),
               s.lambda)

\* The step assigns param a different value right after an update() of a
\* manager with at least one cascade.
MapsSetAfterUpdate(param) ==
  /\ IsMapsSet(param) /\ last'.changed /\ last.op = "update" /\ err = "none"
  /\ MapsCascadeCount(maps) >= 1
ShadowsSetAfterUpdate(param) ==
  /\ IsShadowsSet(param) /\ last'.changed /\ last.op = "update" /\ err = "none"
  /\ ShadowsCascadeCount(shadows) >= 1

\* An update() with the same camera and light direction after the step
\* gives another output than the update() before it.
MapsOutputChanges ==
  MapsOutput(MapsUpdate(maps', camera, sun).m) # MapsOutput(maps)
ShadowsOutputChanges ==
  ShadowsOutput(ShadowsUpdate(shadows', camera, sun).s) # ShadowsOutput(shadows)

SplitCases ==
  {[mode |-> m, count |-> n, near |-> I(a), far |-> I(a * IntPow(k, n)),
    lambda |-> l] :
      m \in Modes, n \in 1..8, a \in {1, 2}, k \in {2, 3}, l \in LambdaValues}
  \cup {[mode |-> m, count |-> n, near |-> I(1), far |-> f, lambda |-> l] :
          m \in Modes, n \in 1..4, f \in {I(16), I(81)}, l \in LambdaValues}
  \cup {[mode |-> "uniform", count |-> n, near |-> a, far |-> I(1000),
         lambda |-> Half] : n \in 1..8, a \in {I(1), Half}}

\* The camera and the managers of a case; the far option lies beyond the
\* camera's far plane.
CameraOf(c) == [CameraA EXCEPT !.near = c.near, !.far = c.far]
ShadowsOf(c) ==
  [ShadowsSetCascadeCount(ShadowsFields, c.count) EXCEPT
     !.mode = c.mode, !.lambda = c.lambda, !.far = I(20000)]
MapsOf(c) ==
  [MapsSetCascadeCount(MapsFields, c.count) EXCEPT
     !.mode = c.mode, !.lambda = c.lambda, !.far = I(20000)]

\* CascadedShadows.updateIntervals on a case.
ApplyUpdateIntervals ==
  /\ calc.fn = "input"
  /\ calc' = [fn |-> "updateIntervals", case |-> calc.case,
              splits |-> ShadowsUpdateIntervals(ShadowsOf(calc.case),
                                                CameraOf(calc.case)).splits]
  /\ UNCHANGED <<sink, camera, sun, maps, shadows, last, err, ops, rollbacks>>

\* CascadedShadowMaps.updateCascades on a case.
ApplyUpdateCascades ==
  /\ calc.fn = "input"
  /\ calc' = [fn |-> "updateCascades", case |-> calc.case,
              splits |-> MapsUpdateCascades(MapsOf(calc.case),
                                            CameraOf(calc.case)).m.splits]
  /\ UNCHANGED <<sink, camera, sun, maps, shadows, last, err, ops, rollbacks>>

SplitNext == ApplyUpdateIntervals \/ ApplyUpdateCascades

\* The managers as constructed and a case drawn for the splitter.
SplitInit ==
  Constructed /\ sink = "shadows" /\ calc \in {Input(c) : c \in SplitCases}

SplitSpec == SplitInit /\ [][SplitNext]_vars

\* calc holds the splits of a case.
IsSplit == calc.fn \in {"updateIntervals", "updateCascades"}

\* There are count splits, strictly increasing.
Increasing(splits, count) ==
  /\ Len(splits) = count
  /\ \A i \in 1..(Len(splits) - 1) : RLess(splits[i], splits[i + 1])

\* C13 as stated: for every count from 1 to 8, every mode and every
\* 0 < near < far the splitter returns count strictly increasing splits, all
\* of them inside the open interval (near, far).
C13_Original ==
  IsSplit =>
    /\ Increasing(calc.splits, calc.case.count)
    /\ \A i \in 1..Len(calc.splits) :
         RLess(calc.case.near, calc.splits[i]) /\ RLess(calc.splits[i], calc.case.far)

\* C13: for every count from 1 to 8, every mode and every 0 < near < far the
\* splitter returns count strictly increasing splits, all of them greater
\* than near; the last one is far itself and the others are less than far.
C13_SplitsIncreaseToFar ==
  IsSplit =>
    /\ Increasing(calc.splits, calc.case.count)
    /\ \A i \in 1..Len(calc.splits) :
         /\ RLess(calc.case.near, calc.splits[i])
         /\ i < Len(calc.splits) => RLess(calc.splits[i], calc.case.far)
    /\ calc.splits[Len(calc.splits)] = calc.case.far

\* updateIntervals has split a frustum into eight logarithmic cascades.
C13_Witness ==
  /\ calc.fn = "updateIntervals" /\ calc.case.count = 8
  /\ calc.case.mode = "logarithmic" /\ Len(calc.splits) = 8
  /\ calc.splits[1] # calc.splits[8]

\* calc holds the splits of the scenario: near 1, far 1000, four cascades,
\* mode uniform.
IsUniformScenario ==
  /\ IsSplit /\ calc.case.mode = "uniform" /\ calc.case.count = 4
  /\ calc.case.near = I(1) /\ calc.case.far = I(1000)

\* C14 as stated: with near 1, far 1000, four cascades and mode uniform the
\* splits are exactly 250, 500, 750, 1000.
C14_Original ==
  IsUniformScenario => calc.splits = <<I(250), I(500), I(750), I(1000)>>

\* C14: with near 1, far 1000, four cascades and mode uniform the splits are
\* those of split_i = near + (far - near) * i / count: 250.75, 500.5, 750.25
\* and 1000.
C14_UniformScenario ==
  IsUniformScenario =>
    /\ calc.splits = <<<<1003, 4>>, <<1001, 2>>, <<3001, 4>>, I(1000)>>
    /\ \A i \in 1..4 :
         calc.splits[i] = RAdd(I(1), RMul(I(999), Rat(i, 4)))

\* updateCascades has split the frustum of the scenario.
C14_Witness ==
  IsUniformScenario /\ calc.fn = "updateCascades" /\ Len(calc.splits) = 4

\* Raw light-space coordinates and texel sizes for the snapping step.
SnapCoordinates == {<<17, 5>>, <<38, 5>>, <<-5, 2>>, Zero, Half, <<7, 3>>}
SnapTexels == {One, Half, I(3)}
SnapCases ==
  {[x |-> x, y |-> y, z |-> I(-4), texel |-> texel, margin |-> margin] :
     x \in SnapCoordinates, y \in SnapCoordinates, texel \in SnapTexels,
     margin \in MarginValues}

\* A sub-frustum, already in light space, whose bounding box has its centre
\* at center.
BoxFace(center, z) ==
  <<VAdd(center, IVec(1, 1, z)), VAdd(center, IVec(1, -1, z)),
    VAdd(center, IVec(-1, -1, z)), VAdd(center, IVec(-1, 1, z))>>
FrustumAround(center) ==
  [near |-> BoxFace(center, 1), far |-> BoxFace(center, -1)]

\* The target of the placement loop for the sub-frustum around (x, y, z) of
\* case c: a map of 2 x 2 texels between -texel and texel.
SnappedCenter(c, x, y) ==
  LightSpaceCenter(FrustumAround(Vec(x, y, c.z)), Identity4, c.margin,
                   RNeg(c.texel), c.texel, c.texel, RNeg(c.texel), I(2))

\* The placement loop up to the rounding, on a case.
ApplySnap ==
  /\ calc.fn = "input"
  /\ calc' = [fn |-> "snap", case |-> calc.case,
              raw |-> Vec(calc.case.x, calc.case.y, calc.case.z),
              center |-> SnappedCenter(calc.case, calc.case.x, calc.case.y)]
  /\ UNCHANGED <<sink, camera, sun, maps, shadows, last, err, ops, rollbacks>>

\* The same on the coordinates the rounding gave.
ApplySnapAgain ==
  /\ calc.fn = "snap"
  /\ calc' = [fn |-> "snapAgain", case |-> calc.case,
              raw |-> Vec(calc.center[1], calc.center[2], calc.case.z),
              center |-> SnappedCenter(calc.case, calc.center[1], calc.center[2])]
  /\ UNCHANGED <<sink, camera, sun, maps, shadows, last, err, ops, rollbacks>>

SnapNext == ApplySnap \/ ApplySnapAgain

SnapInit ==
  Constructed /\ sink = "shadows" /\ calc \in {Input(c) : c \in SnapCases}

SnapSpec == SnapInit /\ [][SnapNext]_vars

\* a is a whole multiple of texel.
IsMultiple(a, texel) == RDiv(a, texel)[2] = 1

\* a and b are at most half a texel apart.
WithinHalf(a, b, texel) ==
  ~RLess(RMul(texel, Half), RAbs(RSub(a, b)))

\* C15: the snapped x and y of the light-space target are multiples of the
\* texel size at most half a texel from the raw ones; snapping snapped
\* coordinates returns them; with texel 1, (3.4, 7.6) snaps to (3, 8); and z
\* is the box's max z plus margin whatever the texel size.
C15_SnapIdempotent ==
  /\ calc.fn \in {"snap", "snapAgain"} =>
       /\ \A k \in 1..2 :
            /\ IsMultiple(calc.center[k], calc.case.texel)
            /\ WithinHalf(calc.center[k], calc.raw[k], calc.case.texel)
       /\ calc.center[3] = RAdd(RAdd(calc.raw[3], I(1)), calc.case.margin)
  /\ calc.fn = "snapAgain" =>
       calc.center[1] = calc.raw[1] /\ calc.center[2] = calc.raw[2]
  /\ (/\ calc.fn = "snap" /\ calc.case.texel = One
      /\ calc.raw[1] = <<17, 5>> /\ calc.raw[2] = <<38, 5>>) =>
       calc.center[1] = I(3) /\ calc.center[2] = I(8)

\* (3.4, 7.6) was snapped to (3, 8) and (3, 8) was snapped again.
C15_Witness ==
  /\ calc.fn = "snapAgain" /\ calc.case.texel = One
  /\ calc.case.x = <<17, 5>> /\ calc.case.y = <<38, 5>>
  /\ calc.raw = Vec(I(3), I(8), I(-4))

\* ------------------------------------------------------------------------
\* The proxy properties for the cascaded lights
\* ------------------------------------------------------------------------

ShadowFields == {"intensity", "bias", "normalBias", "radius", "blurSamples"}
ShadowValues == {0, 1}

\* The setters of intensity, bias, normalBias, radius and blurSamples: the
\* value is compared with the main light's and, when it differs, written to
\* the shadow of every cascaded light.
MapsSetShadow(m, field, value) ==
  IF value # m.mainLight[field]
  THEN WithLights(m, Stored([i \in 1..m.count |->
                               [CascadedLights(m)[i] EXCEPT ![field] = value]]))
  ELSE m
MapsSetIntensity(m, value) == MapsSetShadow(m, "intensity", value)
MapsSetBias(m, value) == MapsSetShadow(m, "bias", value)
MapsSetNormalBias(m, value) == MapsSetShadow(m, "normalBias", value)
MapsSetRadius(m, value) == MapsSetShadow(m, "radius", value)
MapsSetBlurSamples(m, value) == MapsSetShadow(m, "blurSamples", value)

\* An assignment of value to a proxy property.
MapsSetProxy(field, value, after) ==
  /\ sink = "maps"
  /\ ops < MaxOps
  /\ maps' = after
  /\ last' = [op |-> "set", param |-> field, value |-> value,
              changed |-> value # maps.mainLight[field], ran |-> FALSE]
  /\ err' = "none"
  /\ ops' = ops + 1
  /\ UNCHANGED <<sink, camera, sun, shadows, rollbacks, calc>>

MapsAssignIntensity ==
  \E v \in ShadowValues : MapsSetProxy("intensity", v, MapsSetIntensity(maps, v))
MapsAssignBias ==
  \E v \in ShadowValues : MapsSetProxy("bias", v, MapsSetBias(maps, v))
MapsAssignNormalBias ==
  \E v \in ShadowValues : MapsSetProxy("normalBias", v, MapsSetNormalBias(maps, v))
MapsAssignRadius ==
  \E v \in ShadowValues : MapsSetProxy("radius", v, MapsSetRadius(maps, v))
MapsAssignBlurSamples ==
  \E v \in ShadowValues :
    MapsSetProxy("blurSamples", v, MapsSetBlurSamples(maps, v))

\* The scene configures the main light, which directionalLights.mainLight
\* hands out, by writing its shadow directly.
MainLightAssign ==
  /\ sink = "maps"
  /\ ops < MaxOps
  /\ \E field \in ShadowFields, v \in ShadowValues :
       maps' = [maps EXCEPT !.mainLight[field] = v]
  /\ last' = Op("scene", "mainLight", TRUE, FALSE)
  /\ err' = "none"
  /\ ops' = ops + 1
  /\ UNCHANGED <<sink, camera, sun, shadows, rollbacks, calc>>

ProxyNext ==
  \/ MapsAssignCascadeCount
  \/ MapsAssignIntensity
  \/ MapsAssignBias
  \/ MapsAssignNormalBias
  \/ MapsAssignRadius
  \/ MapsAssignBlurSamples
  \/ MainLightAssign

ProxyInit == Init /\ sink = "maps"

ProxySpec == ProxyInit /\ [][ProxyNext]_vars

\* C16 as stated: after an assignment of v to intensity, bias, normalBias,
\* radius or blurSamples every cascaded light holds v in that field of its
\* shadow.
C16_FanOut ==
  (sink = "maps" /\ last.op = "set" /\ last.param \in ShadowFields) =>
    \A i \in 1..MapsCascadeCount(maps) :
      CascadedLights(maps)[i][last.param] = last.value

\* ------------------------------------------------------------------------
\* Materials (MaterialStates is modelled from the specification)
\* ------------------------------------------------------------------------

\* Three materials of the scene, and an entry of the array that is no
\* material, for which MaterialStates.setup throws.
Materials == {"ground", "tree", "water"}
MaterialEntries == Materials \cup {"null"}
MaterialLists ==
  {<<>>} \cup {<<a>> : a \in MaterialEntries}
         \cup {<<a, b>> : a \in MaterialEntries, b \in MaterialEntries}

\* The index of the first entry of materials whose setup throws, or
\* Len(materials) + 1.
FirstThrow(materials) ==
  IF \E i \in 1..Len(materials) : materials[i] \notin Materials
  THEN CHOOSE i \in 1..Len(materials) :
         /\ materials[i] \notin Materials
         /\ \A j \in 1..(i - 1) : materials[j] \in Materials
  ELSE Len(materials) + 1

\* setupMaterials(materials): setup for each entry in turn; the function that
\* rolls them back is returned after the loop.
MapsSetupMaterials(m, materials) ==
  [m |-> [m EXCEPT !.materialStates =
            @ \cup {materials[i] : i \in 1..(FirstThrow(materials) - 1)}],
   err |-> IF FirstThrow(materials) <= Len(materials) THEN "TypeError" ELSE "none",
   returned |-> IF FirstThrow(materials) <= Len(materials) THEN {} ELSE {materials}]

\* The function setupMaterials returned: rollback for each entry.
MapsRollbackMaterials(m, materials) ==
  [m EXCEPT !.materialStates = @ \ {materials[i] : i \in 1..Len(materials)}]

CallSetupMaterials ==
  LET returns(r) ==
        /\ maps' = r.m
        /\ err' = r.err
        /\ rollbacks' = rollbacks \cup r.returned
  IN  /\ sink = "maps"
      /\ ops < MaxOps
      /\ \E materials \in MaterialLists :
           returns(MapsSetupMaterials(maps, materials))
      /\ last' = Op("setupMaterials", "", FALSE, FALSE)
      /\ ops' = ops + 1
      /\ UNCHANGED <<sink, camera, sun, shadows, calc>>

\* The caller calls a function it holds, once, and drops it.
CallRollback ==
  /\ sink = "maps"
  /\ ops < MaxOps
  /\ \E materials \in rollbacks :
       /\ maps' = MapsRollbackMaterials(maps, materials)
       /\ rollbacks' = rollbacks \ {materials}
  /\ last' = Op("rollback", "", FALSE, FALSE)
  /\ err' = "none"
  /\ ops' = ops + 1
  /\ UNCHANGED <<sink, camera, sun, shadows, calc>>

MaterialsNext == CallSetupMaterials \/ CallRollback

MaterialsInit == Init /\ sink = "maps"

MaterialsSpec == MaterialsInit /\ [][MaterialsNext]_vars

\* C17 as stated: every material setupMaterials has set up is rolled back by
\* a function the call returned, also when the setup of one entry threw:
\* whatever is set up is an entry of a function the caller holds.
C17_SetupRollbackPaired ==
  \A material \in maps.materialStates :
    \E materials \in rollbacks :
      \E i \in 1..Len(materials) : materials[i] = material

\* The light orientation and the camera-to-light matrix of the placement
\* loops for the current camera and sun.
LightOrientation ==
  LookAt(Identity4, VZero,
         IF sink = "maps" THEN VNormalize(sun) ELSE VScale(sun, I(-1)),
         DefaultUp)
CameraToLight == MMul(MInvert(LightOrientation), camera.matrixWorld)

\* The world-space target of cascade i when its light-space centre is rounded
\* to the texels of a square projection of the given radius.
TargetFor(i, radius) ==
  ApplyMatrix4(
    LightSpaceCenter(
      IF sink = "maps" THEN maps.cascadedFrusta[i] ELSE shadows.frusta[i],
      CameraToLight,
      IF sink = "maps" THEN maps.margin ELSE shadows.margin,
      RNeg(radius), radius, radius, RNeg(radius),
      I(IF sink = "maps" THEN MapsMapSize(maps) ELSE shadows.cascadeSize)),
    LightOrientation)

IsShadowsUpdate == sink = "shadows" /\ last'.op = "update" /\ ops' = ops + 1

====
